---- MODULE Spec2Model ----
(***************************************************************************)
(* Ledger engine of toy-payments-engine-2 (src/src/lib/transactions.rs).   *)
(* The engine folds an ordered stream of transactions into a map from      *)
(* client id to client state.  One step of the model is one call of        *)
(* resolve_transaction on the next transaction of the stream.              *)
(*                                                                         *)
(* MonetaryAmount is modelled as an integer number of minimal units;       *)
(* addition, subtraction and comparison are those of Integers.             *)
(*                                                                         *)
(* SpecRun models a whole run of process_payments (src/src/lib/lib.rs):    *)
(* process_csv decodes every record, create_ledger folds the decoded       *)
(* transactions, output_csv writes the rows.                               *)
(***************************************************************************)
EXTENDS Integers, Sequences, FiniteSets, TLC

(* ------------------------------ bounds -------------------------------- *)
\* Number of transactions of a stream that change the ledger.
MaxSteps == 5
\* The same, for the streams of SpecDeep.
MaxDeepSteps == 8
\* The same, for the two-client streams of SpecPair.
MaxPairSteps == 3
\* Number of records of an input file of SpecRun.
MaxRows == 3

ClientIds == {1, 2}
TransactionIds == {1, 2, 3}
\* The ids of the streams whose Deposits and Withdrawals carry distinct ids.
MoreTransactionIds == {1, 2, 3, 4, 5}
Amounts == {1, 2}

(* ------------------------------ types --------------------------------- *)
\* AccountActivity::Deposit(ClientId, TransactionId, MonetaryAmount)
Deposit(c_id, tx_id, amount) ==
    [kind |-> "Deposit", client |-> c_id, tx |-> tx_id, amount |-> amount]

\* AccountActivity::Withdrawal(ClientId, TransactionId, MonetaryAmount)
Withdrawal(c_id, tx_id, amount) ==
    [kind |-> "Withdrawal", client |-> c_id, tx |-> tx_id, amount |-> amount]

\* RejectedActivity { activity, disputed_transaction_snapshot }
RejectedActivity(activity, snapshot) ==
    [activity |-> activity, disputed_transaction_snapshot |-> snapshot]

\* TransactionHistory::default(): empty map, empty set, empty vector.
\* account_activity is a function whose domain is the set of recorded ids.
DefaultHistory ==
    [account_activity |-> <<>>, disputed_txs |-> {}, rejected_txs |-> <<>>]

\* ClientState::default()
DefaultClientState ==
    [available |-> 0, held |-> 0, total |-> 0, is_locked |-> FALSE,
     history |-> DefaultHistory]

\* Option<ClientState>: None is the empty sequence, Some(s) is <<s>>.
None == <<>>
Some(s) == <<s>>

(* ------------------------------ utils --------------------------------- *)
\* HashMap::update(k, v): insert or replace.
MapUpdate(m, k, v) == [x \in (DOMAIN m) \cup {k} |-> IF x = k THEN v ELSE m[x]]

\* Variant of get_or_default: for a missing key the fallback is the state of
\* a client the map holds, the default only when the map is empty.
get_or_any(ledger_map, c_id) ==
    IF c_id \in DOMAIN ledger_map THEN ledger_map[c_id]
    ELSE IF DOMAIN ledger_map # {}
    THEN ledger_map[CHOOSE k \in DOMAIN ledger_map : TRUE]
    ELSE DefaultClientState

\* OrDefault::get_or_default
get_or_default(ledger_map, c_id) ==
    IF c_id \in DOMAIN ledger_map THEN ledger_map[c_id] ELSE DefaultClientState

\* Variant of push: the item is put at the front (push_front for push_back).
push_front(vec, item) == <<item>> \o vec

\* PushImmut::push
push(vec, item) == Append(vec, item)

\* Variant of remove_idx: the entries after idx are dropped as well (the
\* second half of `split_at` is not appended).
remove_idx_and_rest(vec, idx) == SubSeq(vec, 1, idx - 1)

\* RemoveImmut::remove_idx (indices are 1-based here)
remove_idx(vec, idx) ==
    [i \in 1..(Len(vec) - 1) |-> IF i < idx THEN vec[i] ELSE vec[i + 1]]

(* ---------------------- ClientState field updates --------------------- *)
map_avail(s, v) == [s EXCEPT !.available = v]
map_total(s, v) == [s EXCEPT !.total = v]
map_held(s, v) == [s EXCEPT !.held = v]
update_locked(s, b) == [s EXCEPT !.is_locked = b]
map_account_activity(s, m) == [s EXCEPT !.history.account_activity = m]
map_disputed_tx(s, d) == [s EXCEPT !.history.disputed_txs = d]
map_rejected_activity(s, r) == [s EXCEPT !.history.rejected_txs = r]

(* --------------------- transaction resolution rules ------------------- *)
\* Variant of update_deposit: `.map_total(|t| t + amount)` is missing.
update_deposit_keeps_total(client_state, activity, tx_id, amount) ==
    IF client_state.is_locked
    THEN client_state
    ELSE LET s1 == map_avail(client_state, client_state.available + amount)
         IN  map_account_activity(
                 s1, MapUpdate(s1.history.account_activity, tx_id, activity))

\* Variant of update_deposit: the early return for a locked account is missing.
update_deposit_ignores_lock(client_state, activity, tx_id, amount) ==
    LET s1 == map_avail(client_state, client_state.available + amount)
        s2 == map_total(s1, s1.total + amount)
    IN  map_account_activity(
            s2, MapUpdate(s2.history.account_activity, tx_id, activity))

\* fn update_deposit
update_deposit(client_state, activity, tx_id, amount) ==
    IF client_state.is_locked
    THEN client_state
    ELSE LET s1 == map_avail(client_state, client_state.available + amount)
             s2 == map_total(s1, s1.total + amount)
         IN  map_account_activity(
                 s2, MapUpdate(s2.history.account_activity, tx_id, activity))

\* Variant of no_possible_withdrawal_backfill: `|| client_state.total < amount`
\* is missing.
no_possible_withdrawal_backfill_no_total(client_state, amount) ==
    /\ client_state.available < amount
    /\ client_state.history.disputed_txs = {}

\* Variant of no_possible_withdrawal_backfill: the condition is never met, so
\* update_withdrawal returns early for locked accounts only.
no_possible_withdrawal_backfill_never(client_state, amount) == FALSE

\* update_withdrawal's `let no_possible_withdrawal_backfill`: the resolution
\* of disputes will not affect this transaction.
no_possible_withdrawal_backfill(client_state, amount) ==
    \/ /\ client_state.available < amount
       /\ client_state.history.disputed_txs = {}
    \/ client_state.total < amount

\* Variant of potential_backfill: `<=` for `<`.
potential_backfill_off_by_one(client_state, amount) ==
    /\ client_state.available <= amount
    /\ client_state.history.disputed_txs # {}

\* update_withdrawal's `let potential_backfill`: the resolution of disputes
\* may affect this transaction.
potential_backfill(client_state, amount) ==
    /\ client_state.available < amount
    /\ client_state.history.disputed_txs # {}

\* Variant of update_withdrawal: the amount of a withdrawal stored in
\* rejected_txs leaves total at once.
update_withdrawal_charges_rejected(client_state, activity, tx_id, amount) ==
    IF client_state.is_locked \/ no_possible_withdrawal_backfill(client_state, amount)
    THEN client_state
    ELSE IF potential_backfill(client_state, amount)
    THEN LET rejected_activity ==
                 RejectedActivity(activity, client_state.history.disputed_txs)
             s1 == map_total(client_state, client_state.total - amount)
         IN  map_rejected_activity(
                 s1, push(s1.history.rejected_txs, rejected_activity))
    ELSE LET s1 == map_total(client_state, client_state.total - amount)
             s2 == map_avail(s1, s1.available - amount)
         IN  map_account_activity(
                 s2, MapUpdate(s2.history.account_activity, tx_id, activity))

\* fn update_withdrawal
update_withdrawal(client_state, activity, tx_id, amount) ==
    IF client_state.is_locked \/ no_possible_withdrawal_backfill(client_state, amount)
    THEN client_state
    ELSE IF potential_backfill(client_state, amount)
    THEN LET rejected_activity ==
                 RejectedActivity(activity, client_state.history.disputed_txs)
         IN  map_rejected_activity(
                 client_state,
                 push(client_state.history.rejected_txs, rejected_activity))
    ELSE LET s1 == map_total(client_state, client_state.total - amount)
             s2 == map_avail(s1, s1.available - amount)
         IN  map_account_activity(
                 s2, MapUpdate(s2.history.account_activity, tx_id, activity))

\* Variant of IsRecordedDeposit: any recorded activity is accepted
\* (`if let Some(..)` without the Deposit pattern).
IsRecordedDeposit_any_activity(client_state, tx_id) ==
    tx_id \in DOMAIN client_state.history.account_activity

\* `if let Some(AccountActivity::Deposit(..)) = account_activity.get(&tx_id)`
IsRecordedDeposit(client_state, tx_id) ==
    /\ tx_id \in DOMAIN client_state.history.account_activity
    /\ client_state.history.account_activity[tx_id].kind = "Deposit"

\* Variant of update_dispute: the amount also leaves total.
update_dispute_reduces_total(client_state, tx_id) ==
    LET is_already_disputed == tx_id \in client_state.history.disputed_txs
    IN  IF client_state.is_locked \/ is_already_disputed
        THEN None
        ELSE IF IsRecordedDeposit(client_state, tx_id)
        THEN LET act == client_state.history.account_activity[tx_id]
                 s1 == map_avail(client_state, client_state.available - act.amount)
                 s2 == map_held(s1, s1.held + act.amount)
                 s3 == map_total(s2, s2.total - act.amount)
             IN  Some(map_disputed_tx(s3, s3.history.disputed_txs \cup {act.tx}))
        ELSE None

\* Variant of update_dispute: the disputed id is also added to the snapshots
\* of the rejected withdrawals.
update_dispute_extends_snapshots(client_state, tx_id) ==
    LET is_already_disputed == tx_id \in client_state.history.disputed_txs
    IN  IF client_state.is_locked \/ is_already_disputed
        THEN None
        ELSE IF IsRecordedDeposit(client_state, tx_id)
        THEN LET act == client_state.history.account_activity[tx_id]
                 s1 == map_avail(client_state, client_state.available - act.amount)
                 s2 == map_held(s1, s1.held + act.amount)
                 s3 == map_disputed_tx(s2, s2.history.disputed_txs \cup {act.tx})
                 rej == s3.history.rejected_txs
             IN  Some(map_rejected_activity(
                     s3,
                     [i \in 1..Len(rej) |->
                         RejectedActivity(
                             rej[i].activity,
                             rej[i].disputed_transaction_snapshot \cup {act.tx})]))
        ELSE None

\* Variant of update_dispute: `|| is_already_disputed` is missing.
update_dispute_again(client_state, tx_id) ==
    IF client_state.is_locked
    THEN None
    ELSE IF IsRecordedDeposit(client_state, tx_id)
    THEN LET act == client_state.history.account_activity[tx_id]
             s1 == map_avail(client_state, client_state.available - act.amount)
             s2 == map_held(s1, s1.held + act.amount)
         IN  Some(map_disputed_tx(s2, s2.history.disputed_txs \cup {act.tx}))
    ELSE None

\* fn update_dispute
update_dispute(client_state, tx_id) ==
    LET is_already_disputed == tx_id \in client_state.history.disputed_txs
    IN  IF client_state.is_locked \/ is_already_disputed
        THEN None
        ELSE IF IsRecordedDeposit(client_state, tx_id)
        THEN LET act == client_state.history.account_activity[tx_id]
                 s1 == map_avail(client_state, client_state.available - act.amount)
                 s2 == map_held(s1, s1.held + act.amount)
             IN  Some(map_disputed_tx(s2, s2.history.disputed_txs \cup {act.tx}))
        ELSE None

\* Variant of find_idx: the entries are compared by amount only.
find_idx_by_amount(rej, activity) ==
    LET hits == {i \in 1..Len(rej) : rej[i].activity.amount = activity.amount}
    IN  IF hits = {} THEN 0 ELSE CHOOSE i \in hits : \A j \in hits : i <= j

\* The index of the first entry of rej whose activity equals the given one
\* (`.enumerate().find(..).map(|(i, _)| i)`); 0 stands for None.
find_idx(rej, activity) ==
    LET hits == {i \in 1..Len(rej) : rej[i].activity = activity}
    IN  IF hits = {} THEN 0 ELSE CHOOSE i \in hits : \A j \in hits : i <= j

\* Variant of backfill_step: `<` for `<=` in withdraw_within_avail.
backfill_step_strictly_within(resolved_tx, acc, rejected_tx) ==
    IF acc.panic THEN acc
    ELSE IF rejected_tx.activity.kind # "Withdrawal"
    THEN [acc EXCEPT !.panic = TRUE]
    ELSE
    LET st == acc.state
        withdraw_amount == rejected_tx.activity.amount
        idx == find_idx(st.history.rejected_txs, rejected_tx.activity)
    IN  IF /\ resolved_tx \in rejected_tx.disputed_transaction_snapshot
           /\ withdraw_amount < st.available
        THEN IF idx = 0
             THEN [acc EXCEPT !.panic = TRUE]
             ELSE LET s1 == map_avail(st, st.available - withdraw_amount)
                      s2 == map_total(s1, s1.total - withdraw_amount)
                  IN  [acc EXCEPT !.state = map_rejected_activity(
                           s2, remove_idx(s2.history.rejected_txs, idx))]
        ELSE acc

\* Variant of backfill_step: `&& withdraw_within_avail` is missing.
backfill_step_any_available(resolved_tx, acc, rejected_tx) ==
    IF acc.panic THEN acc
    ELSE IF rejected_tx.activity.kind # "Withdrawal"
    THEN [acc EXCEPT !.panic = TRUE]
    ELSE
    LET st == acc.state
        withdraw_amount == rejected_tx.activity.amount
        idx == find_idx(st.history.rejected_txs, rejected_tx.activity)
    IN  IF resolved_tx \in rejected_tx.disputed_transaction_snapshot
        THEN IF idx = 0
             THEN [acc EXCEPT !.panic = TRUE]
             ELSE LET s1 == map_avail(st, st.available - withdraw_amount)
                      s2 == map_total(s1, s1.total - withdraw_amount)
                  IN  [acc EXCEPT !.state = map_rejected_activity(
                           s2, remove_idx(s2.history.rejected_txs, idx))]
        ELSE acc

\* Variant of backfill_step: `.map_total(|t| t - withdraw_amount)` is missing.
backfill_step_keeps_total(resolved_tx, acc, rejected_tx) ==
    IF acc.panic THEN acc
    ELSE IF rejected_tx.activity.kind # "Withdrawal"
    THEN [acc EXCEPT !.panic = TRUE]
    ELSE
    LET st == acc.state
        withdraw_amount == rejected_tx.activity.amount
        idx == find_idx(st.history.rejected_txs, rejected_tx.activity)
    IN  IF /\ resolved_tx \in rejected_tx.disputed_transaction_snapshot
           /\ withdraw_amount <= st.available
        THEN IF idx = 0
             THEN [acc EXCEPT !.panic = TRUE]
             ELSE LET s1 == map_avail(st, st.available - withdraw_amount)
                  IN  [acc EXCEPT !.state = map_rejected_activity(
                           s1, remove_idx(s1.history.rejected_txs, idx))]
        ELSE acc

\* Variant of backfill_step: the backfilled entry is left in rejected_txs
\* (`.map_rejected_activity(..)` is missing).
backfill_step_keeps_entry(resolved_tx, acc, rejected_tx) ==
    IF acc.panic THEN acc
    ELSE IF rejected_tx.activity.kind # "Withdrawal"
    THEN [acc EXCEPT !.panic = TRUE]
    ELSE
    LET st == acc.state
        withdraw_amount == rejected_tx.activity.amount
        idx == find_idx(st.history.rejected_txs, rejected_tx.activity)
    IN  IF /\ resolved_tx \in rejected_tx.disputed_transaction_snapshot
           /\ withdraw_amount <= st.available
        THEN IF idx = 0
             THEN [acc EXCEPT !.panic = TRUE]
             ELSE LET s1 == map_avail(st, st.available - withdraw_amount)
                  IN  [acc EXCEPT !.state = map_total(s1, s1.total - withdraw_amount)]
        ELSE acc

\* The closure folded by resolve_prev_rejected.  acc is [state, panic]: panic
\* records that one of the two panics of the closure was hit (a rejected
\* entry that is no Withdrawal, or the unwrap of a failed search).
backfill_step(resolved_tx, acc, rejected_tx) ==
    IF acc.panic THEN acc
    ELSE IF rejected_tx.activity.kind # "Withdrawal"
    THEN [acc EXCEPT !.panic = TRUE]
    ELSE
    LET st == acc.state
        rejected_tx_occured_before_resolved_tx ==
            resolved_tx \in rejected_tx.disputed_transaction_snapshot
        withdraw_amount == rejected_tx.activity.amount
        withdraw_within_avail == withdraw_amount <= st.available
        idx == find_idx(st.history.rejected_txs, rejected_tx.activity)
    IN  IF rejected_tx_occured_before_resolved_tx /\ withdraw_within_avail
        THEN IF idx = 0
             THEN [acc EXCEPT !.panic = TRUE]
             ELSE LET s1 == map_avail(st, st.available - withdraw_amount)
                      s2 == map_total(s1, s1.total - withdraw_amount)
                  IN  [acc EXCEPT !.state = map_rejected_activity(
                           s2, remove_idx(s2.history.rejected_txs, idx))]
        ELSE acc

\* Variant of fold_rejected: the list is iterated from its last entry to its
\* first (`.iter().rev()`).
RECURSIVE fold_rejected_reversed(_, _, _, _)
fold_rejected_reversed(resolved_tx, rejected, n, init) ==
    IF n = 0 THEN init
    ELSE backfill_step(resolved_tx,
                       fold_rejected_reversed(resolved_tx, rejected, n - 1, init),
                       rejected[Len(rejected) - n + 1])

\* The accumulator of resolve_prev_rejected's fold after the first n entries
\* of rejected (the list the iterator was taken from).
RECURSIVE fold_rejected(_, _, _, _)
fold_rejected(resolved_tx, rejected, n, init) ==
    IF n = 0 THEN init
    ELSE backfill_step(resolved_tx,
                       fold_rejected(resolved_tx, rejected, n - 1, init),
                       rejected[n])

\* fn resolve_prev_rejected: [state, panic]
resolve_prev_rejected(resolved_tx, client_state) ==
    fold_rejected(resolved_tx, client_state.history.rejected_txs,
                  Len(client_state.history.rejected_txs),
                  [state |-> client_state, panic |-> FALSE])

\* The state update_resolve hands to resolve_prev_rejected.
resolve_release(client_state, tx_id) ==
    LET act == client_state.history.account_activity[tx_id]
        s1 == map_avail(client_state, client_state.available + act.amount)
        s2 == map_held(s1, s1.held - act.amount)
    IN  map_disputed_tx(s2, s2.history.disputed_txs \ {act.tx})

\* Variant of update_resolve: the backfill pass runs on the state as it was
\* before the disputed amount was released.
update_resolve_backfill_first(client_state, tx_id) ==
    LET is_disputed == tx_id \in client_state.history.disputed_txs
    IN  IF client_state.is_locked \/ ~is_disputed
        THEN [result |-> None, panic |-> FALSE]
        ELSE IF IsRecordedDeposit(client_state, tx_id)
        THEN LET r == resolve_prev_rejected(
                          client_state.history.account_activity[tx_id].tx,
                          client_state)
             IN  [result |-> Some(resolve_release(r.state, tx_id)),
                  panic |-> r.panic]
        ELSE [result |-> None, panic |-> FALSE]

\* fn update_resolve: [result, panic] with result an Option<ClientState>
update_resolve(client_state, tx_id) ==
    LET is_disputed == tx_id \in client_state.history.disputed_txs
    IN  IF client_state.is_locked \/ ~is_disputed
        THEN [result |-> None, panic |-> FALSE]
        ELSE IF IsRecordedDeposit(client_state, tx_id)
        THEN LET new_state == resolve_release(client_state, tx_id)
                 r == resolve_prev_rejected(
                          client_state.history.account_activity[tx_id].tx, new_state)
             IN  [result |-> Some(r.state), panic |-> r.panic]
        ELSE [result |-> None, panic |-> FALSE]

\* Variant of update_chargeback: `client_state.is_locked ||` is missing.
update_chargeback_ignores_lock(client_state, tx_id) ==
    LET is_disputed == tx_id \in client_state.history.disputed_txs
    IN  IF ~is_disputed
        THEN None
        ELSE IF IsRecordedDeposit(client_state, tx_id)
        THEN LET act == client_state.history.account_activity[tx_id]
                 s1 == map_total(client_state, client_state.total - act.amount)
                 s2 == map_held(s1, s1.held - act.amount)
             IN  Some(update_locked(s2, TRUE))
        ELSE None

\* Variant of update_chargeback: `.update_locked(true)` is missing.
update_chargeback_no_lock(client_state, tx_id) ==
    LET is_disputed == tx_id \in client_state.history.disputed_txs
    IN  IF client_state.is_locked \/ ~is_disputed
        THEN None
        ELSE IF IsRecordedDeposit(client_state, tx_id)
        THEN LET act == client_state.history.account_activity[tx_id]
                 s1 == map_total(client_state, client_state.total - act.amount)
             IN  Some(map_held(s1, s1.held - act.amount))
        ELSE None

\* Variant of update_chargeback: `|| !is_disputed` is missing.
update_chargeback_undisputed(client_state, tx_id) ==
    IF client_state.is_locked
    THEN None
    ELSE IF IsRecordedDeposit(client_state, tx_id)
    THEN LET act == client_state.history.account_activity[tx_id]
             s1 == map_total(client_state, client_state.total - act.amount)
             s2 == map_held(s1, s1.held - act.amount)
         IN  Some(update_locked(s2, TRUE))
    ELSE None

\* Variant of update_chargeback: the amount leaves available as well.
update_chargeback_takes_available(client_state, tx_id) ==
    LET is_disputed == tx_id \in client_state.history.disputed_txs
    IN  IF client_state.is_locked \/ ~is_disputed
        THEN None
        ELSE IF IsRecordedDeposit(client_state, tx_id)
        THEN LET act == client_state.history.account_activity[tx_id]
                 s1 == map_total(client_state, client_state.total - act.amount)
                 s2 == map_held(s1, s1.held - act.amount)
                 s3 == map_avail(s2, s2.available - act.amount)
             IN  Some(update_locked(s3, TRUE))
        ELSE None

\* fn update_chargeback
update_chargeback(client_state, tx_id) ==
    LET is_disputed == tx_id \in client_state.history.disputed_txs
    IN  IF client_state.is_locked \/ ~is_disputed
        THEN None
        ELSE IF IsRecordedDeposit(client_state, tx_id)
        THEN LET act == client_state.history.account_activity[tx_id]
                 s1 == map_total(client_state, client_state.total - act.amount)
                 s2 == map_held(s1, s1.held - act.amount)
             IN  Some(update_locked(s2, TRUE))
        ELSE None

(* ------------------------------ the fold ------------------------------ *)
\* enum Transaction, flattened: Activity(Deposit | Withdrawal) carries an
\* amount; Dispute(Dispute | Resolve | Chargeback) carries none (amount 0).
Transaction(kind, c_id, tx_id, amount) ==
    [kind |-> kind, client |-> c_id, tx |-> tx_id, amount |-> amount]

\* Variant of update_if_some: on None the state looked up by get_or_default
\* is stored.
update_or_default(ledger_map, c_id, new_state) ==
    IF new_state = None
    THEN MapUpdate(ledger_map, c_id, get_or_default(ledger_map, c_id))
    ELSE MapUpdate(ledger_map, c_id, new_state[1])

\* `match new_state { Some(state) => ledger.update(c_id, state), None => ledger }`
update_if_some(ledger_map, c_id, new_state) ==
    IF new_state = None THEN ledger_map ELSE MapUpdate(ledger_map, c_id, new_state[1])

\* fn resolve_transaction: [ledger, panic]
resolve_transaction(transaction, ledger_map) ==
    LET c_id == transaction.client
        tx_id == transaction.tx
        amount == transaction.amount
        client_state == get_or_default(ledger_map, c_id)
    IN  CASE transaction.kind = "Deposit" ->
               [ledger |-> MapUpdate(ledger_map, c_id,
                               update_deposit(client_state,
                                   Deposit(c_id, tx_id, amount), tx_id, amount)),
                panic |-> FALSE]
          [] transaction.kind = "Withdrawal" ->
               [ledger |-> MapUpdate(ledger_map, c_id,
                               update_withdrawal(client_state,
                                   Withdrawal(c_id, tx_id, amount), tx_id, amount)),
                panic |-> FALSE]
          [] transaction.kind = "Dispute" ->
               [ledger |-> update_if_some(ledger_map, c_id,
                               update_dispute(client_state, tx_id)),
                panic |-> FALSE]
          [] transaction.kind = "Resolve" ->
               LET r == update_resolve(client_state, tx_id)
               IN  [ledger |-> update_if_some(ledger_map, c_id, r.result),
                    panic |-> r.panic]
          [] transaction.kind = "Chargeback" ->
               [ledger |-> update_if_some(ledger_map, c_id,
                               update_chargeback(client_state, tx_id)),
                panic |-> FALSE]

\* ClientLedger::from_state
from_state(id, state) ==
    [id |-> id, available |-> state.available, held |-> state.held,
     total |-> state.total, is_locked |-> state.is_locked]

\* create_ledger_with_init's `.into_iter().map(..).collect()`: the rows of
\* Ledger, one per key of the map, in no particular order.
Ledger(ledger_map) == {from_state(c, ledger_map[c]) : c \in DOMAIN ledger_map}

(* ------------------------------ state --------------------------------- *)
VARIABLES
    ledger,      \* the accumulator of create_ledger's fold: ClientId -> ClientState
    panicked,    \* the run was aborted by a panic inside the fold
    last,        \* history: the transaction folded by the latest step
    applied,     \* history: the rejected entries the latest step backfilled
    closed,      \* history: per client and per entry of rejected_txs, the ids of
                 \* its snapshot whose dispute has been resolved since the entry
                 \* was stored
    changed,     \* history: the latest step changed the ledger
    n_steps,     \* number of transactions folded so far that changed the ledger
    stream_clients,    \* history: the client ids of the transactions folded
    activity_clients,  \* history: those of the Deposits and Withdrawals folded
    solo,        \* history: per client, the fold of that client's transactions
                 \* alone, in their order in the stream, from an empty map
    activity_ids,  \* history: the ids of the Deposits and of the Withdrawals
                 \* folded, kept for the streams whose ids are distinct
    pending,     \* history: None, or Some(the withdrawal stored as the only
                 \* entry of rejected_txs, the state it was stored in and the
                 \* ids of its snapshot not resolved since), as long as its
                 \* client's transactions since are Resolves of ids of the
                 \* snapshot, one for each; kept for the streams whose
                 \* Deposits and Withdrawals carry distinct ids
    chargebacks, \* history: per client, the number of Chargebacks that have
                 \* taken effect
    accounted,   \* history: per client, the amounts of the deposits applied
                 \* less those of the withdrawals applied directly or by
                 \* backfill and of the deposits charged back
    pc,          \* process_payments: "process_csv", "create_ledger", "Ok" (the
                 \* rows were written) or "panic" (into_domain aborted the run)
    input,       \* process_csv: the records of the input file (TxRowEntity)
    n_read,      \* process_csv: number of records taken from the reader
    rows,        \* process_csv: the transactions decoded and not yet folded
    output       \* output_csv: None, or Some(the rows written)

run_vars == <<pc, input, n_read, rows, output>>

vars ==
    <<ledger, panicked, last, applied, closed, changed, n_steps,
      stream_clients, activity_clients, solo, activity_ids, accounted,
      chargebacks, pending,
      pc, input, n_read, rows, output>>

NoTransaction == Transaction("None", 0, 0, 0)

\* The state before the first iteration of create_ledger's fold, which starts
\* from HashMap::default().
InitLedger ==
    /\ ledger = <<>>
    /\ panicked = FALSE
    /\ last = NoTransaction
    /\ applied = <<>>
    /\ closed = [c \in ClientIds |-> <<>>]
    /\ changed = FALSE
    /\ n_steps = 0
    /\ stream_clients = {}
    /\ activity_clients = {}
    /\ solo = [c \in ClientIds |-> <<>>]
    /\ activity_ids = [deposits |-> {}, withdrawals |-> {}]
    /\ accounted = [c \in ClientIds |-> 0]
    /\ chargebacks = [c \in ClientIds |-> 0]
    /\ pending = None

\* create_ledger on an arbitrary stream: the transactions are chosen step by
\* step, no input file is read and nothing is written.
Init ==
    /\ InitLedger
    /\ pc = "create_ledger"
    /\ input = <<>>
    /\ n_read = 0
    /\ rows = <<>>
    /\ output = None

(* ------------------- history of the backfill pass --------------------- *)
\* The entries of `rejected` (positions 1..n) that the fold of
\* resolve_prev_rejected applies, in order: pos is the entry's position in
\* the list iterated, idx the position removed from the accumulator's list.
RECURSIVE backfill_trace(_, _, _, _)
backfill_trace(resolved_tx, rejected, n, init) ==
    IF n = 0 THEN <<>>
    ELSE LET before == fold_rejected(resolved_tx, rejected, n - 1, init)
             after == backfill_step(resolved_tx, before, rejected[n])
             rest == backfill_trace(resolved_tx, rejected, n - 1, init)
         IN  IF after.state # before.state
             THEN Append(rest,
                         [pos |-> n,
                          idx |-> find_idx(before.state.history.rejected_txs,
                                           rejected[n].activity)])
             ELSE rest

\* `list` after the removals of the first k elements of trace.
RECURSIVE remove_traced(_, _, _)
remove_traced(list, trace, k) ==
    IF k = 0 THEN list
    ELSE remove_idx(remove_traced(list, trace, k - 1), trace[k].idx)

\* The backfill trace of transaction on ledger_map: empty unless it is a
\* Resolve that takes effect.
TraceOf(transaction, ledger_map) ==
    LET s == get_or_default(ledger_map, transaction.client)
    IN  IF /\ transaction.kind = "Resolve"
           /\ update_resolve(s, transaction.tx).result # None
        THEN LET new_state == resolve_release(s, transaction.tx)
             IN  backfill_trace(transaction.tx, new_state.history.rejected_txs,
                                Len(new_state.history.rejected_txs),
                                [state |-> new_state, panic |-> FALSE])
        ELSE <<>>

\* applied after the step: for each entry backfilled, the entry and whether
\* the resolved id's dispute had already been closed once since the entry
\* was stored (the dispute now resolved was opened after the withdrawal).
AppliedOf(transaction, ledger_map, closed_map) ==
    LET s == get_or_default(ledger_map, transaction.client)
        trace == TraceOf(transaction, ledger_map)
    IN  [k \in 1..Len(trace) |->
            [rejected |-> s.history.rejected_txs[trace[k].pos],
             reopened |-> transaction.tx \in closed_map[transaction.client][trace[k].pos]]]

\* closed after the step.
ClosedOf(transaction, ledger_map, new_ledger, closed_map) ==
    LET c_id == transaction.client
        old == get_or_default(ledger_map, c_id).history.rejected_txs
        new == get_or_default(new_ledger, c_id).history.rejected_txs
        trace == TraceOf(transaction, ledger_map)
        kept == remove_traced(closed_map[c_id], trace, Len(trace))
    IN  IF new_ledger = ledger_map THEN closed_map
        ELSE IF transaction.kind = "Withdrawal" /\ Len(new) = Len(old) + 1
        THEN [closed_map EXCEPT ![c_id] = Append(@, {})]
        ELSE IF transaction.kind = "Resolve"
        THEN [closed_map EXCEPT ![c_id] =
                 [i \in 1..Len(kept) |->
                     IF transaction.tx \in new[i].disputed_transaction_snapshot
                     THEN kept[i] \cup {transaction.tx} ELSE kept[i]]]
        ELSE closed_map

(* ------------------------------ the stream ---------------------------- *)
\* Transaction ids the ledger holds a trace of: ids with a recorded activity
\* and ids of stored rejected withdrawals.
KnownIds ==
    UNION {(DOMAIN ledger[c].history.account_activity)
           \cup {ledger[c].history.rejected_txs[i].activity.tx :
                   i \in 1..Len(ledger[c].history.rejected_txs)} :
           c \in DOMAIN ledger}

\* The ids the next transaction may carry.  The engine only compares ids for
\* equality, so among the ids it holds no trace of one representative (the
\* least) stands for all of them.
OfferedIds ==
    LET fresh == TransactionIds \ KnownIds
    IN  KnownIds \cup (IF fresh = {} THEN {}
                       ELSE {CHOOSE t \in fresh : \A u \in fresh : t <= u})

\* The ids a Deposit or Withdrawal may carry when it must not carry one of
\* `used`: the ids held that are not used, and the least id of `ids`
\* neither held nor used.
IdsAvoiding(ids, used) ==
    LET fresh == ids \ (KnownIds \cup used)
    IN  (KnownIds \ used) \cup (IF fresh = {} THEN {}
                                 ELSE {CHOOSE t \in fresh : \A u \in fresh : t <= u})

\* The ids the next Deposit may carry in the streams of env.
DepositIds(env) ==
    IF env.distinct = "activities"
    THEN IdsAvoiding(env.ids, activity_ids.deposits \cup activity_ids.withdrawals)
    ELSE OfferedIds

\* The ids the next Withdrawal may carry in the streams of env.
WithdrawalIds(env) ==
    IF env.distinct = "activities"
    THEN IdsAvoiding(env.ids, activity_ids.deposits \cup activity_ids.withdrawals)
    ELSE IF env.distinct = "withdrawals"
    THEN IdsAvoiding(env.ids, activity_ids.withdrawals)
    ELSE OfferedIds

\* What a stream is drawn from.  Broad: every kind, amount and id, and at
\* most MaxSteps transactions that change the ledger.  Deep: longer streams
\* of deposits of 1 and withdrawals of 1 or 2, in which every transaction
\* changes the ledger.
Broad ==
    [deposit_amounts |-> Amounts, withdrawal_amounts |-> Amounts,
     clients |-> {1}, max_steps |-> MaxSteps, noops |-> TRUE,
     distinct |-> "none", ids |-> TransactionIds]

Deep ==
    [deposit_amounts |-> {1}, withdrawal_amounts |-> Amounts,
     clients |-> {1}, max_steps |-> MaxDeepSteps, noops |-> FALSE,
     distinct |-> "none", ids |-> TransactionIds]

\* Pair: two clients, every kind, amount and id, and at most MaxPairSteps
\* transactions that change the ledger.
Pair ==
    [deposit_amounts |-> Amounts, withdrawal_amounts |-> Amounts,
     clients |-> ClientIds, max_steps |-> MaxPairSteps, noops |-> TRUE,
     distinct |-> "none", ids |-> TransactionIds]

\* DistinctWithdrawals: the streams of Deep in which no two Withdrawals carry
\* the same transaction id.
DistinctWithdrawals ==
    [deposit_amounts |-> {1}, withdrawal_amounts |-> Amounts,
     clients |-> {1}, max_steps |-> MaxDeepSteps, noops |-> FALSE,
     distinct |-> "withdrawals", ids |-> TransactionIds]

\* DistinctActivities: streams of deposits and withdrawals of 1 or 2 in which
\* every transaction changes the ledger and no two of the Deposits and
\* Withdrawals carry the same transaction id.
DistinctActivities ==
    [deposit_amounts |-> Amounts, withdrawal_amounts |-> Amounts,
     clients |-> {1}, max_steps |-> MaxDeepSteps, noops |-> FALSE,
     distinct |-> "activities", ids |-> MoreTransactionIds]

\* One iteration of the fold in create_ledger_with_init.
\* The sum of the amounts of the withdrawals of a list of backfilled
\* entries (the first n of them).
RECURSIVE BackfilledAmount(_, _)
BackfilledAmount(done, n) ==
    IF n = 0 THEN 0
    ELSE BackfilledAmount(done, n - 1) + done[n].rejected.activity.amount

\* The sum accounted to the client of transaction after its fold took
\* ledger_map to new_ledger and backfilled the entries done: an applied
\* Deposit adds its amount; a Withdrawal that moved funds without being
\* stored in rejected_txs subtracts its amount; an effective Resolve
\* subtracts the amounts of the entries it backfilled; an effective
\* Chargeback subtracts the amount of the Deposit recorded under its id.
\* A transaction that left the client's state as it was, a Dispute and a
\* Withdrawal stored in rejected_txs count for nothing.
AccountedOf(transaction, ledger_map, new_ledger, done, old_accounted) ==
    LET c_id == transaction.client
        old == get_or_default(ledger_map, c_id)
        new == get_or_default(new_ledger, c_id)
        moved ==
            IF new = old THEN 0
            ELSE IF transaction.kind = "Deposit" THEN transaction.amount
            ELSE IF transaction.kind = "Withdrawal"
            THEN IF new.history.rejected_txs = old.history.rejected_txs
                 THEN 0 - transaction.amount
                 ELSE 0
            ELSE IF transaction.kind = "Resolve"
            THEN 0 - BackfilledAmount(done, Len(done))
            ELSE IF transaction.kind = "Chargeback"
            THEN IF IsRecordedDeposit(old, transaction.tx)
                 THEN 0 - old.history.account_activity[transaction.tx].amount
                 ELSE 0
            ELSE 0
    IN  IF c_id \in DOMAIN old_accounted
        THEN [old_accounted EXCEPT ![c_id] = @ + moved]
        ELSE old_accounted

\* pending after the fold of transaction took ledger_map to new_ledger: a
\* Withdrawal that update_withdrawal stored as the only entry of
\* rejected_txs starts it, with the snapshot the entry carries; a Resolve of
\* the same client for an id of the snapshot not resolved since takes the id
\* off; another client's transaction leaves it; anything else ends it.
PendingOf(transaction, ledger_map, new_ledger, old_pending) ==
    LET c_id == transaction.client
        old == get_or_default(ledger_map, c_id)
        new == get_or_default(new_ledger, c_id)
        this == Withdrawal(c_id, transaction.tx, transaction.amount)
    IN  IF /\ transaction.kind = "Withdrawal"
           /\ old.history.rejected_txs = <<>>
           /\ Len(new.history.rejected_txs) = 1
           /\ new.history.rejected_txs[1].activity = this
        THEN Some([activity |-> this,
                   state |-> new,
                   left |-> new.history.rejected_txs[1].disputed_transaction_snapshot])
        ELSE IF old_pending = None THEN None
        ELSE IF c_id # old_pending[1].activity.client THEN old_pending
        ELSE IF transaction.kind = "Resolve" /\ transaction.tx \in old_pending[1].left
        THEN Some([old_pending[1] EXCEPT !.left = @ \ {transaction.tx}])
        ELSE None

Fold(env, transaction) ==
    /\ ~panicked
    /\ LET r == resolve_transaction(transaction, ledger)
           new_ledger == IF r.panic THEN ledger ELSE r.ledger
           c_id == transaction.client
           alone == resolve_transaction(transaction, solo[c_id])
       IN  /\ IF new_ledger # ledger \/ r.panic
              THEN n_steps < env.max_steps
              ELSE env.noops
           /\ ledger' = new_ledger
           /\ panicked' = r.panic
           /\ changed' = (new_ledger # ledger)
           /\ n_steps' = IF new_ledger # ledger THEN n_steps + 1 ELSE n_steps
           /\ applied' = AppliedOf(transaction, ledger, closed)
           /\ closed' = ClosedOf(transaction, ledger, new_ledger, closed)
           /\ solo' = IF alone.panic THEN solo
                      ELSE [solo EXCEPT ![c_id] = alone.ledger]
           /\ chargebacks' =
                  IF /\ transaction.kind = "Chargeback"
                     /\ c_id \in DOMAIN chargebacks
                     /\ get_or_default(new_ledger, c_id)
                            # get_or_default(ledger, c_id)
                  THEN [chargebacks EXCEPT ![c_id] = @ + 1]
                  ELSE chargebacks
           /\ pending' = IF env.distinct = "activities"
                         THEN PendingOf(transaction, ledger, new_ledger, pending)
                         ELSE pending
           /\ accounted' = AccountedOf(transaction, ledger, new_ledger,
                                       AppliedOf(transaction, ledger, closed),
                                       accounted)
    /\ last' = transaction
    /\ stream_clients' = stream_clients \cup {transaction.client}
    /\ activity_clients' =
           IF transaction.kind \in {"Deposit", "Withdrawal"}
           THEN activity_clients \cup {transaction.client}
           ELSE activity_clients
    /\ activity_ids' =
           IF env.distinct = "none" THEN activity_ids
           ELSE IF transaction.kind = "Deposit"
           THEN [activity_ids EXCEPT !.deposits = @ \cup {transaction.tx}]
           ELSE IF transaction.kind = "Withdrawal"
           THEN [activity_ids EXCEPT !.withdrawals = @ \cup {transaction.tx}]
           ELSE activity_ids

DepositTx(env) ==
    \E c_id \in env.clients, tx_id \in DepositIds(env), amount \in env.deposit_amounts :
        /\ Fold(env, Transaction("Deposit", c_id, tx_id, amount))
        /\ UNCHANGED run_vars

WithdrawalTx(env) ==
    \E c_id \in env.clients, tx_id \in WithdrawalIds(env), amount \in env.withdrawal_amounts :
        /\ Fold(env, Transaction("Withdrawal", c_id, tx_id, amount))
        /\ UNCHANGED run_vars

DisputeTx(env) ==
    \E c_id \in env.clients, tx_id \in OfferedIds :
        /\ Fold(env, Transaction("Dispute", c_id, tx_id, 0))
        /\ UNCHANGED run_vars

ResolveTx(env) ==
    \E c_id \in env.clients, tx_id \in OfferedIds :
        /\ Fold(env, Transaction("Resolve", c_id, tx_id, 0))
        /\ UNCHANGED run_vars

ChargebackTx(env) ==
    \E c_id \in env.clients, tx_id \in OfferedIds :
        /\ Fold(env, Transaction("Chargeback", c_id, tx_id, 0))
        /\ UNCHANGED run_vars

StreamNext(env) ==
    \/ DepositTx(env)
    \/ WithdrawalTx(env)
    \/ DisputeTx(env)
    \/ ResolveTx(env)
    \/ ChargebackTx(env)

Next == StreamNext(Broad)

NextDeep == StreamNext(Deep)

NextPair == StreamNext(Pair)

NextDistinctWithdrawals == StreamNext(DistinctWithdrawals)

NextDistinctActivities == StreamNext(DistinctActivities)

Spec == Init /\ [][Next]_vars

SpecDeep == Init /\ [][NextDeep]_vars

SpecPair == Init /\ [][NextPair]_vars

SpecDistinctWithdrawals == Init /\ [][NextDistinctWithdrawals]_vars

SpecDistinctActivities == Init /\ [][NextDistinctActivities]_vars

(* ------------------------------ the run ------------------------------- *)
\* enum TxTypeEntity
TxTypeEntities == {"Deposit", "Withdrawal", "Dispute", "Resolve", "ChargeBack"}

\* struct TxRowEntity; amount is an Option: None, or Some(a).
TxRowEntity(tx_type, client, tx, amount) ==
    [tx_type |-> tx_type, client |-> client, tx |-> tx, amount |-> amount]

\* Variant of into_domain: the Dispute, Resolve and ChargeBack patterns do
\* not look at the amount (`amount: _` for `amount: None`).
into_domain_any_amount(row) ==
    CASE row.tx_type = "Deposit" /\ row.amount # None ->
           [transaction |-> Transaction("Deposit", row.client, row.tx, row.amount[1]),
            panic |-> FALSE]
      [] row.tx_type = "Withdrawal" /\ row.amount # None ->
           [transaction |-> Transaction("Withdrawal", row.client, row.tx, row.amount[1]),
            panic |-> FALSE]
      [] row.tx_type = "Dispute" ->
           [transaction |-> Transaction("Dispute", row.client, row.tx, 0),
            panic |-> FALSE]
      [] row.tx_type = "Resolve" ->
           [transaction |-> Transaction("Resolve", row.client, row.tx, 0),
            panic |-> FALSE]
      [] row.tx_type = "ChargeBack" ->
           [transaction |-> Transaction("Chargeback", row.client, row.tx, 0),
            panic |-> FALSE]
      [] OTHER -> [transaction |-> NoTransaction, panic |-> TRUE]

\* TxRowEntity::into_domain: [transaction, panic]; panic is the last arm,
\* `_ => panic!("Found unexpected row in the input")`.
into_domain(row) ==
    CASE row.tx_type = "Deposit" /\ row.amount # None ->
           [transaction |-> Transaction("Deposit", row.client, row.tx, row.amount[1]),
            panic |-> FALSE]
      [] row.tx_type = "Withdrawal" /\ row.amount # None ->
           [transaction |-> Transaction("Withdrawal", row.client, row.tx, row.amount[1]),
            panic |-> FALSE]
      [] row.tx_type = "Dispute" /\ row.amount = None ->
           [transaction |-> Transaction("Dispute", row.client, row.tx, 0),
            panic |-> FALSE]
      [] row.tx_type = "Resolve" /\ row.amount = None ->
           [transaction |-> Transaction("Resolve", row.client, row.tx, 0),
            panic |-> FALSE]
      [] row.tx_type = "ChargeBack" /\ row.amount = None ->
           [transaction |-> Transaction("Chargeback", row.client, row.tx, 0),
            panic |-> FALSE]
      [] OTHER -> [transaction |-> NoTransaction, panic |-> TRUE]

\* fixed_width: `format!("{:.4}", x)` of an amount of x minimal units (one
\* unit is 0.0001): the sign, the integer part and the four decimals.
fixed_width(x) ==
    LET abs == IF x < 0 THEN 0 - x ELSE x
    IN  [negative |-> x < 0, units |-> abs \div 10000, decimals |-> abs % 10000]

\* ClientLedgerEntity::from_ledger, as serialized by output_csv.
from_ledger(client_ledger) ==
    [client |-> client_ledger.id,
     available |-> fixed_width(client_ledger.available),
     held |-> fixed_width(client_ledger.held),
     total |-> fixed_width(client_ledger.total),
     locked |-> client_ledger.is_locked]

\* fn output_csv: one serialized record per row.
output_csv(client_ledger) == {from_ledger(row) : row \in client_ledger}

\* The records an input file is made of: every type, with and without an
\* amount, for one client and one transaction id.
RowEntities ==
    {TxRowEntity(tx_type, 1, 1, amount) :
        tx_type \in TxTypeEntities, amount \in {None, Some(1)}}

\* The input files: at most MaxRows records.
InputFiles == UNION {[1..n -> RowEntities] : n \in 0..MaxRows}

\* The streams process_csv hands to create_ledger.
Decoded ==
    [deposit_amounts |-> {1}, withdrawal_amounts |-> {1},
     clients |-> {1}, max_steps |-> MaxRows, noops |-> TRUE,
     distinct |-> "none", ids |-> TransactionIds]

fold_vars ==
    <<ledger, panicked, last, applied, closed, changed, n_steps,
      stream_clients, activity_clients, solo, activity_ids, accounted,
      chargebacks, pending>>

\* process_payments is called on an input file.
InitRun ==
    /\ InitLedger
    /\ pc = "process_csv"
    /\ input \in InputFiles
    /\ n_read = 0
    /\ rows = <<>>
    /\ output = None

\* process_csv: one iteration of `for row in reader.deserialize()`, which
\* decodes the record and pushes the transaction, or panics in into_domain.
\* (Records that fail to deserialize are not part of the input files here.)
ReadRecord ==
    /\ pc = "process_csv"
    /\ n_read < Len(input)
    /\ LET domain == into_domain(input[n_read + 1])
       IN  IF domain.panic
           THEN pc' = "panic" /\ rows' = rows
           ELSE pc' = pc /\ rows' = push(rows, domain.transaction)
    /\ n_read' = n_read + 1
    /\ UNCHANGED <<input, output>>
    /\ UNCHANGED fold_vars

\* process_csv returns Ok(rows); process_payments calls create_ledger.
EndOfRecords ==
    /\ pc = "process_csv"
    /\ n_read = Len(input)
    /\ pc' = "create_ledger"
    /\ UNCHANGED <<input, n_read, rows, output>>
    /\ UNCHANGED fold_vars

\* create_ledger: the fold takes the next transaction of the iterator.
FoldNext ==
    /\ pc = "create_ledger"
    /\ rows # <<>>
    /\ Fold(Decoded, Head(rows))
    /\ rows' = Tail(rows)
    /\ UNCHANGED <<pc, input, n_read, output>>

\* The fold is over: the map is turned into rows and output_csv writes them.
WriteOutput ==
    /\ pc = "create_ledger"
    /\ rows = <<>>
    /\ ~panicked
    /\ output' = Some(output_csv(Ledger(ledger)))
    /\ pc' = "Ok"
    /\ UNCHANGED <<input, n_read, rows>>
    /\ UNCHANGED fold_vars

NextRun ==
    \/ ReadRecord
    \/ EndOfRecords
    \/ FoldNext
    \/ WriteOutput

SpecRun == InitRun /\ [][NextRun]_vars

(* ============================== claims ================================ *)
\* The client state the latest transaction was folded into, and the result.
Before == get_or_default(ledger, last'.client)
After == get_or_default(ledger', last'.client)

\* The latest step folded a transaction of this kind into a client state
\* that was not locked.
StepOn(kind) == last'.kind = kind /\ ~Before.is_locked

\* The state of the client the latest transaction names.
Current == get_or_default(ledger, last.client)

\* The entries of rejected_txs of the client the latest transaction names.
Rejected == Current.history.rejected_txs

(* ------------------------------- C1 ----------------------------------- *)
\* C1: from an empty ledger, after every transaction of any stream (the
\* backfill pass of Resolve included), every client state satisfies
\* total = available + held.
C1_TotalIsAvailablePlusHeld ==
    \A c \in DOMAIN ledger :
        ledger[c].total = ledger[c].available + ledger[c].held

\* A Resolve has just backfilled a rejected withdrawal while another amount
\* is still held.
C1_Witness ==
    /\ last.kind = "Resolve"
    /\ Len(applied) > 0
    /\ Current.held # 0
    /\ Current.total = Current.available + Current.held

(* ------------------------------- C2 ----------------------------------- *)
\* C2: once a client is locked, no transaction of any kind changes any of
\* its fields (available, held, total, is_locked, account_activity,
\* disputed_txs, rejected_txs).
C2_LockedClientNeverChanges ==
    [][\A c \in DOMAIN ledger :
          ledger[c].is_locked => (c \in DOMAIN ledger' /\ ledger'[c] = ledger[c])]_vars

\* A Withdrawal was folded into a locked account that has an open dispute
\* and available < amount <= total: it was not stored as rejected.
C2_Witness ==
    /\ last.kind = "Withdrawal"
    /\ Current.is_locked
    /\ Current.history.disputed_txs # {}
    /\ Current.available < last.amount
    /\ last.amount <= Current.total
    /\ Rejected = <<>>

(* ------------------------------- C3 ----------------------------------- *)
\* C3: a rejected withdrawal is backfilled during Resolve(c, tx) only if the
\* dispute being resolved was already open when the withdrawal was
\* attempted: tx is in the entry's snapshot and no Resolve of tx has taken
\* effect since the entry was stored (a dispute of tx opened after the
\* attempt never causes the backfill).
C3_BackfillOnlyByDisputeOpenAtAttempt ==
    \A k \in 1..Len(applied) :
        /\ last.tx \in applied[k].rejected.disputed_transaction_snapshot
        /\ ~applied[k].reopened

(* ------------------------------- C4 ----------------------------------- *)
\* C4: a Withdrawal attempted while the client has no open dispute that
\* fails for insufficient available funds is never applied afterwards.  It
\* leaves the client state as it was (so nothing of it is kept to apply
\* later), and every withdrawal that is kept in rejected_txs, or applied
\* from it by a later Resolve, was stored while a dispute was open.
C4_NoDisputeFailureNeverApplied ==
    /\ [][(/\ StepOn("Withdrawal")
           /\ Before.history.disputed_txs = {}
           /\ Before.available < last'.amount) => After = Before]_vars
    /\ [](\A c \in DOMAIN ledger :
            \A i \in 1..Len(ledger[c].history.rejected_txs) :
                ledger[c].history.rejected_txs[i].disputed_transaction_snapshot # {})
    /\ [](\A k \in 1..Len(applied) :
            applied[k].rejected.disputed_transaction_snapshot # {})

\* A Withdrawal that total would have covered was folded into an unlocked
\* account with no open dispute and too little available: nothing changed.
C4_Witness ==
    /\ last.kind = "Withdrawal"
    /\ ~changed
    /\ ~Current.is_locked
    /\ Current.history.disputed_txs = {}
    /\ Current.available < last.amount
    /\ last.amount <= Current.total
    /\ Rejected = <<>>

(* ------------------------------- C5 ----------------------------------- *)
\* The backfill pass as the claim describes it: the entries are examined in
\* order against the running available, and an entry that is eligible and
\* affordable is itself removed.  removed is the set of positions removed.
RECURSIVE claimed_fold(_, _, _, _)
claimed_fold(resolved_tx, rejected, n, init) ==
    IF n = 0 THEN init
    ELSE LET acc == claimed_fold(resolved_tx, rejected, n - 1, init)
             r == rejected[n]
         IN  IF /\ resolved_tx \in r.disputed_transaction_snapshot
                /\ r.activity.amount <= acc.available
             THEN [available |-> acc.available - r.activity.amount,
                   total |-> acc.total - r.activity.amount,
                   removed |-> acc.removed \cup {n}]
             ELSE acc

\* The elements of list at the positions not in removed, in order.
RECURSIVE without_positions(_, _, _)
without_positions(list, removed, n) ==
    IF n = 0 THEN <<>>
    ELSE IF n \in removed
    THEN without_positions(list, removed, n - 1)
    ELSE Append(without_positions(list, removed, n - 1), list[n])

\* Resolve(c, tx_id) takes effect on client_state.
ResolveTakesEffect(client_state, tx_id) ==
    /\ ~client_state.is_locked
    /\ tx_id \in client_state.history.disputed_txs
    /\ tx_id \in DOMAIN client_state.history.account_activity
    /\ client_state.history.account_activity[tx_id].kind = "Deposit"

\* The client state the claim expects after an effective Resolve(c, tx_id).
claimed_resolve(client_state, tx_id) ==
    LET a == client_state.history.account_activity[tx_id].amount
        rej == client_state.history.rejected_txs
        acc == claimed_fold(tx_id, rej, Len(rej),
                            [available |-> client_state.available + a,
                             total |-> client_state.total,
                             removed |-> {}])
    IN  [client_state EXCEPT
            !.available = acc.available,
            !.total = acc.total,
            !.held = client_state.held - a,
            !.history.disputed_txs = @ \ {tx_id},
            !.history.rejected_txs = without_positions(rej, acc.removed, Len(rej))]

\* C5: when Resolve(c, tx) takes effect, every rejected entry whose snapshot
\* contains tx and whose amount is <= the running available when it is
\* examined is applied: available and total decrease by its amount, held is
\* unchanged, that entry is removed from rejected_txs, and account_activity
\* is not updated.
C5_ResolveAppliesEligibleEntries ==
    [][(last'.kind = "Resolve" /\ ResolveTakesEffect(Before, last'.tx))
          => After = claimed_resolve(Before, last'.tx)]_vars

(* ------------------------------- C6 ----------------------------------- *)
\* C6: a Withdrawal(c, tx, amount) on an unlocked account for which
\* (available < amount and disputed_txs is empty) or (total < amount) leaves
\* every field of the client unchanged: it is recorded neither as activity
\* nor as rejected.
C6_HopelessWithdrawalIsDropped ==
    [][(/\ StepOn("Withdrawal")
        /\ \/ /\ Before.available < last'.amount
              /\ Before.history.disputed_txs = {}
           \/ Before.total < last'.amount) => After = Before]_vars

\* A Withdrawal exceeding total was folded into an unlocked account that has
\* an open dispute: nothing changed.
C6_Witness ==
    /\ last.kind = "Withdrawal"
    /\ ~changed
    /\ ~Current.is_locked
    /\ Current.history.disputed_txs # {}
    /\ Current.total < last.amount
    /\ Current.total > 0

(* ------------------------------- C7 ----------------------------------- *)
\* C7: a Withdrawal(c, tx, amount) on an unlocked account with
\* available < amount <= total and disputed_txs non-empty moves no funds,
\* leaves account_activity and disputed_txs unchanged, and appends exactly
\* one RejectedActivity to the end of rejected_txs, whose activity is that
\* withdrawal and whose snapshot is disputed_txs at that moment.
C7_WithdrawalStoredAsRejected ==
    [][(/\ StepOn("Withdrawal")
        /\ Before.available < last'.amount
        /\ last'.amount <= Before.total
        /\ Before.history.disputed_txs # {})
          => After = [Before EXCEPT !.history.rejected_txs =
                        Append(@, [activity |->
                                      Withdrawal(last'.client, last'.tx, last'.amount),
                                   disputed_transaction_snapshot |->
                                      Before.history.disputed_txs])]]_vars

\* A Withdrawal has just been stored behind a different rejected entry.
C7_Witness ==
    /\ last.kind = "Withdrawal"
    /\ changed
    /\ Len(Rejected) = 2
    /\ Rejected[2].activity = Withdrawal(last.client, last.tx, last.amount)
    /\ Rejected[2].disputed_transaction_snapshot = Current.history.disputed_txs
    /\ Rejected[1].activity # Rejected[2].activity

(* ------------------------------- C8 ----------------------------------- *)
\* After is Before with the withdrawal of the latest step applied.
WithdrawalApplied ==
    After = [Before EXCEPT
                !.available = @ - last'.amount,
                !.total = @ - last'.amount,
                !.history.account_activity =
                    MapUpdate(@, last'.tx,
                              Withdrawal(last'.client, last'.tx, last'.amount))]

\* The latest step moved no funds and recorded no activity.
NotAppliedDirectly ==
    /\ After.available = Before.available
    /\ After.total = Before.total
    /\ After.history.account_activity = Before.history.account_activity

\* C8 as stated: a Withdrawal(c, tx, amount) on an unlocked account with
\* available >= amount is applied (available and total decrease by amount,
\* held, disputed_txs and rejected_txs are unchanged, Withdrawal(tx, amount)
\* is recorded under tx), and a withdrawal is never applied directly when
\* amount > available.
C8_Original ==
    [][/\ (StepOn("Withdrawal") /\ Before.available >= last'.amount)
              => WithdrawalApplied
       /\ (StepOn("Withdrawal") /\ last'.amount > Before.available)
              => NotAppliedDirectly]_vars

\* C8 as amended: a Withdrawal(c, tx, amount) on an unlocked account with
\* available >= amount and total >= amount is applied (as above), and a
\* withdrawal is never applied directly when amount > available.
C8_WithdrawalWithinAvailableAndTotalApplied ==
    [][/\ (/\ StepOn("Withdrawal")
           /\ Before.available >= last'.amount
           /\ Before.total >= last'.amount) => WithdrawalApplied
       /\ (StepOn("Withdrawal") /\ last'.amount > Before.available)
              => NotAppliedDirectly]_vars

\* A Withdrawal has just been applied to an account with an open dispute
\* and available exactly the amount.
C8_Witness ==
    /\ last.kind = "Withdrawal"
    /\ changed
    /\ ~Current.is_locked
    /\ Current.history.disputed_txs # {}
    /\ Current.available = 0
    /\ last.tx \in DOMAIN Current.history.account_activity
    /\ Current.history.account_activity[last.tx] =
           Withdrawal(last.client, last.tx, last.amount)

(* ------------------------------- C9 ----------------------------------- *)
\* C9: a Deposit(c, tx, amount) on an unlocked account increases available
\* and total by amount, leaves held, is_locked, disputed_txs and
\* rejected_txs unchanged and records Deposit(tx, amount) under tx; on a
\* locked account it changes nothing.
C9_DepositApplied ==
    [][last'.kind = "Deposit" =>
          After = IF Before.is_locked THEN Before
                  ELSE [Before EXCEPT
                           !.available = @ + last'.amount,
                           !.total = @ + last'.amount,
                           !.history.account_activity =
                               MapUpdate(@, last'.tx,
                                         Deposit(last'.client, last'.tx,
                                                 last'.amount))]]_vars

\* A Deposit has just been recorded on an unlocked account that has an open
\* dispute and a rejected withdrawal.
C9_Witness ==
    /\ last.kind = "Deposit"
    /\ changed
    /\ ~Current.is_locked
    /\ Current.history.disputed_txs # {}
    /\ Rejected # <<>>
    /\ Current.history.account_activity[last.tx] =
           Deposit(last.client, last.tx, last.amount)

(* ------------------------------- C10 ---------------------------------- *)
\* C10: a Dispute(c, tx) on an unlocked account where tx is not already
\* disputed and account_activity[tx] is a Deposit of amount a decreases
\* available by a, increases held by a, leaves total, is_locked,
\* account_activity and rejected_txs unchanged, and adds tx to disputed_txs.
C10_DisputeHoldsDeposit ==
    [][(/\ StepOn("Dispute")
        /\ last'.tx \notin Before.history.disputed_txs
        /\ last'.tx \in DOMAIN Before.history.account_activity
        /\ Before.history.account_activity[last'.tx].kind = "Deposit")
          => After = [Before EXCEPT
                         !.available =
                             @ - Before.history.account_activity[last'.tx].amount,
                         !.held =
                             @ + Before.history.account_activity[last'.tx].amount,
                         !.history.disputed_txs = @ \cup {last'.tx}]]_vars

\* A Dispute has just taken effect on an account that holds a rejected
\* withdrawal and another open dispute.
C10_Witness ==
    /\ last.kind = "Dispute"
    /\ changed
    /\ last.tx \in Current.history.disputed_txs
    /\ Cardinality(Current.history.disputed_txs) = 2
    /\ Rejected # <<>>

(* ------------------------------- C11 ---------------------------------- *)
\* C11: a Dispute(c, tx) leaves the whole ledger unchanged when tx has no
\* recorded activity for client c (an unknown id, an id recorded only for
\* another client, the id of a rejected or dropped withdrawal) or when the
\* activity recorded for tx is a Withdrawal.
C11_DisputeOfUnrecordedOrWithdrawalIsNoOp ==
    [][(/\ last'.kind = "Dispute"
        /\ \/ last'.tx \notin DOMAIN Before.history.account_activity
           \/ Before.history.account_activity[last'.tx].kind = "Withdrawal")
          => ledger' = ledger]_vars

\* A Dispute has just been folded for an unlocked client that has no
\* activity under the id, while another client has an undisputed Deposit
\* recorded under it: nothing changed.
C11_Witness ==
    /\ last.kind = "Dispute"
    /\ ~changed
    /\ ~Current.is_locked
    /\ last.tx \notin DOMAIN Current.history.account_activity
    /\ \E c \in DOMAIN ledger \ {last.client} :
           /\ last.tx \in DOMAIN ledger[c].history.account_activity
           /\ ledger[c].history.account_activity[last.tx].kind = "Deposit"
           /\ last.tx \notin ledger[c].history.disputed_txs
           /\ ledger[c].held = 0

(* ------------------------------- C12 ---------------------------------- *)
\* The ledger after folding the same transaction n times in a row.
RECURSIVE Repeat(_, _, _)
Repeat(transaction, ledger_map, n) ==
    IF n = 0 THEN ledger_map
    ELSE resolve_transaction(transaction,
                             Repeat(transaction, ledger_map, n - 1)).ledger

\* C12: Dispute is idempotent: for every reachable client state and every
\* tx, applying Dispute(c, tx) n >= 1 times in a row (n up to 3 here) yields
\* exactly the same client state as applying it once.
C12_DisputeIsIdempotent ==
    \A c \in ClientIds, tx \in TransactionIds, n \in 1..3 :
        LET dispute == Transaction("Dispute", c, tx, 0)
        IN  get_or_default(Repeat(dispute, ledger, n), c)
                = get_or_default(Repeat(dispute, ledger, 1), c)

\* A repeated Dispute of a held Deposit has just been folded and changed
\* nothing, while a Dispute of another recorded Deposit would still take
\* effect.
C12_Witness ==
    /\ last.kind = "Dispute"
    /\ ~changed
    /\ ~Current.is_locked
    /\ last.tx \in Current.history.disputed_txs
    /\ Current.held > 0
    /\ \E tx \in DOMAIN Current.history.account_activity :
           /\ Current.history.account_activity[tx].kind = "Deposit"
           /\ tx \notin Current.history.disputed_txs

(* ------------------------------- C13 ---------------------------------- *)
\* The latest step folds a Resolve of a disputed, recorded Deposit into an
\* unlocked account.
ResolveOfHeldDeposit ==
    /\ StepOn("Resolve")
    /\ last'.tx \in Before.history.disputed_txs
    /\ last'.tx \in DOMAIN Before.history.account_activity
    /\ Before.history.account_activity[last'.tx].kind = "Deposit"

\* Before with the amount of the resolved Deposit released: available
\* increased and held decreased by it, total unchanged, tx no longer
\* disputed.
Released ==
    [Before EXCEPT
        !.available = @ + Before.history.account_activity[last'.tx].amount,
        !.held = @ - Before.history.account_activity[last'.tx].amount,
        !.history.disputed_txs = @ \ {last'.tx}]

\* C13: a Resolve(c, tx) on an unlocked account where tx is in disputed_txs
\* and account_activity[tx] is a Deposit of amount a increases available by
\* a, decreases held by a, leaves total unchanged and removes tx from
\* disputed_txs before the backfill pass runs (the result is the pass run on
\* that state); when rejected_txs is empty this is the final state; and tx
\* can afterwards be disputed again with effect.
C13_ResolveReleasesBeforeBackfill ==
    [][ResolveOfHeldDeposit =>
         /\ After = resolve_prev_rejected(last'.tx, Released).state
         /\ Before.history.rejected_txs = <<>> => After = Released
         /\ LET dispute == Transaction("Dispute", last'.client, last'.tx, 0)
                again == get_or_default(
                             resolve_transaction(dispute, ledger').ledger,
                             last'.client)
            IN  /\ last'.tx \in again.history.disputed_txs
                /\ again.held = After.held
                       + Before.history.account_activity[last'.tx].amount
                /\ again.available = After.available
                       - Before.history.account_activity[last'.tx].amount]_vars

\* A Resolve has just released a Deposit and backfilled one rejected
\* withdrawal that the available funds did not cover before the release;
\* the id is no longer disputed.
C13_Witness ==
    /\ last.kind = "Resolve"
    /\ changed
    /\ ~Current.is_locked
    /\ Len(applied) = 1
    /\ last.tx \notin Current.history.disputed_txs
    /\ last.tx \in DOMAIN Current.history.account_activity
    /\ Current.history.account_activity[last.tx].kind = "Deposit"
    /\ Current.available < Current.history.account_activity[last.tx].amount

(* ------------------------------- C14 ---------------------------------- *)
\* C14: a Resolve(c, tx) or Chargeback(c, tx) whose tx is not currently in
\* the client's disputed_txs (never disputed, already resolved, an unknown
\* id, an unknown client) leaves the whole ledger unchanged and does not
\* lock the account.
C14_UndisputedResolveOrChargebackIsNoOp ==
    [][(/\ last'.kind \in {"Resolve", "Chargeback"}
        /\ last'.tx \notin Before.history.disputed_txs)
          => /\ ledger' = ledger
             /\ After.is_locked = Before.is_locked]_vars

\* A Chargeback has just been folded for an unlocked client whose Deposit
\* under the id had been disputed and resolved: nothing changed, the
\* account is not locked.
C14_Witness ==
    /\ last.kind = "Chargeback"
    /\ ~changed
    /\ ~Current.is_locked
    /\ last.tx \notin Current.history.disputed_txs
    /\ last.tx \in DOMAIN Current.history.account_activity
    /\ Current.history.account_activity[last.tx].kind = "Deposit"
    /\ last.tx \in UNION {closed[last.client][i] :
                             i \in 1..Len(closed[last.client])}

(* ------------------------------- C15 ---------------------------------- *)
\* C15: a Chargeback(c, tx) on an unlocked account where tx is in
\* disputed_txs and account_activity[tx] is a Deposit of amount a decreases
\* total and held by a, leaves available, account_activity and rejected_txs
\* unchanged, and sets is_locked to true.
C15_ChargebackRemovesHeldAndLocks ==
    [][(/\ StepOn("Chargeback")
        /\ last'.tx \in Before.history.disputed_txs
        /\ last'.tx \in DOMAIN Before.history.account_activity
        /\ Before.history.account_activity[last'.tx].kind = "Deposit")
          => /\ After.total = Before.total
                    - Before.history.account_activity[last'.tx].amount
             /\ After.held = Before.held
                    - Before.history.account_activity[last'.tx].amount
             /\ After.available = Before.available
             /\ After.history.account_activity = Before.history.account_activity
             /\ After.history.rejected_txs = Before.history.rejected_txs
             /\ After.is_locked]_vars

\* A Chargeback has just locked an account that has available funds left
\* and holds a rejected withdrawal.
C15_Witness ==
    /\ last.kind = "Chargeback"
    /\ changed
    /\ Current.is_locked
    /\ Current.available > 0
    /\ Rejected # <<>>
    /\ last.tx \in DOMAIN Current.history.account_activity

(* ------------------------------- C16 ---------------------------------- *)
\* C16: Dispute/Resolve round trip: for every reachable client state in
\* which Dispute(c, tx) takes effect, folding Dispute(c, tx) and immediately
\* after it Resolve(c, tx) yields available, held, total and disputed_txs
\* equal to their values before the Dispute.
C16_DisputeResolveRoundTrip ==
    \A c \in ClientIds, tx \in TransactionIds :
        LET disputed ==
                resolve_transaction(Transaction("Dispute", c, tx, 0), ledger).ledger
            resolved ==
                resolve_transaction(Transaction("Resolve", c, tx, 0), disputed).ledger
            s == get_or_default(ledger, c)
            t == get_or_default(resolved, c)
        IN  disputed # ledger =>
                /\ t.available = s.available
                /\ t.held = s.held
                /\ t.total = s.total
                /\ t.history.disputed_txs = s.history.disputed_txs

(* ------------------------------- C17 ---------------------------------- *)
\* The rows of `out` are exactly one for each client id of `clients`.
OneRowFor(out, clients) ==
    /\ \A c \in clients : Cardinality({row \in out : row.id = c}) = 1
    /\ \A row \in out : row.id \in clients

\* C17 as stated: the ledger produced from an empty initial state has
\* exactly one row for every client id that occurs in any transaction of the
\* stream, whatever the kind and whether or not the transaction had an
\* effect, and no row for any other client.
C17_Original == OneRowFor(Ledger(ledger), stream_clients)

\* C17 as amended: the ledger produced from an empty initial state has
\* exactly one row for every client id that occurs in a Deposit or
\* Withdrawal of the stream, whether or not it had an effect, and no row for
\* any other client (none for a client that only Disputes, Resolves or
\* Chargebacks name).
C17_OneRowPerClientOfAnActivity == OneRowFor(Ledger(ledger), activity_clients)

\* One client was named by Disputes, Resolves or Chargebacks only and has no
\* row; the other was named by a Withdrawal that was dropped and has an
\* all-zero, unlocked row.
C17_Witness ==
    /\ stream_clients = ClientIds
    /\ \E c \in stream_clients \ activity_clients :
           \A row \in Ledger(ledger) : row.id # c
    /\ \E c \in activity_clients :
           /\ from_state(c, DefaultClientState) \in Ledger(ledger)
           /\ last = Transaction("Withdrawal", c, last.tx, last.amount)

(* ------------------------------- C18 ---------------------------------- *)
\* C18: clients never interact: a transaction for client A leaves the state
\* of every other client B unchanged (a Dispute, Resolve or Chargeback for A
\* that names an id recorded for B included), so the state of each client is
\* the result of folding only that client's own transactions in their input
\* order, for every interleaving with the other client's transactions.
C18_ClientsNeverInteract ==
    /\ [][\A c \in ClientIds \ {last'.client} :
             /\ c \in DOMAIN ledger' <=> c \in DOMAIN ledger
             /\ c \in DOMAIN ledger => ledger'[c] = ledger[c]]_vars
    /\ [](\A c \in ClientIds :
             /\ c \in DOMAIN ledger <=> c \in DOMAIN solo[c]
             /\ c \in DOMAIN ledger => ledger[c] = solo[c][c]
             /\ DOMAIN solo[c] \subseteq {c})

\* A Resolve has just been folded for a client with funds of its own,
\* naming an id under which the other client has a disputed Deposit: the
\* other client's amount is still held.
C18_Witness ==
    /\ last.kind = "Resolve"
    /\ last.client \in DOMAIN ledger
    /\ ledger[last.client].available > 0
    /\ \E c \in DOMAIN ledger \ {last.client} :
           /\ last.tx \in ledger[c].history.disputed_txs
           /\ ledger[c].held > 0
           /\ ledger[c] = solo[c][c]

(* ------------------------------- C19 ---------------------------------- *)
\* C19: account_activity is append-only: once an entry is recorded under a
\* transaction id it is never removed or replaced by any later transaction
\* (a later Deposit or Withdrawal that reuses the id included), an entry is
\* added only by a Deposit or Withdrawal that was applied, and a rejected or
\* dropped withdrawal adds no entry.
C19_AccountActivityIsAppendOnly ==
    [][/\ \A tx \in DOMAIN Before.history.account_activity :
             /\ tx \in DOMAIN After.history.account_activity
             /\ After.history.account_activity[tx]
                    = Before.history.account_activity[tx]
       /\ After.history.account_activity # Before.history.account_activity
             => /\ last'.kind \in {"Deposit", "Withdrawal"}
                /\ After.total # Before.total
       /\ (last'.kind = "Withdrawal" /\ After.total = Before.total)
             => After.history.account_activity
                    = Before.history.account_activity]_vars

(* ------------------------------- C20 ---------------------------------- *)
\* The record has the wrong amount presence for its type.
Malformed(row) ==
    \/ row.tx_type \in {"Deposit", "Withdrawal"} /\ row.amount = <<>>
    \/ row.tx_type \in {"Dispute", "Resolve", "ChargeBack"} /\ row.amount # <<>>

\* C20: if any input record has the wrong amount presence for its kind (the
\* amount missing on a Deposit or Withdrawal, or present on a Dispute,
\* Resolve or Chargeback), the run fails before the engine applies any
\* transaction (it fails at the first such record) and no ledger output,
\* not even for the records that preceded the malformed one, is produced.
C20_MalformedRecordFailsBeforeProcessing ==
    \A i \in 1..Len(input) :
        (Malformed(input[i]) /\ \A j \in 1..(i - 1) : ~Malformed(input[j]))
            => /\ output = <<>>
               /\ ledger = <<>>
               /\ last = NoTransaction
               /\ n_steps = 0
               /\ n_read <= i
               /\ IF n_read = i THEN pc = "panic" ELSE pc = "process_csv"

\* The run has failed on the third record, a Dispute that carries an
\* amount, after a Deposit and a Withdrawal were decoded: nothing was
\* folded and nothing was written.
C20_Witness ==
    /\ pc = "panic"
    /\ n_read = 3
    /\ input[1] = TxRowEntity("Deposit", 1, 1, <<1>>)
    /\ input[2] = TxRowEntity("Withdrawal", 1, 1, <<1>>)
    /\ input[3] = TxRowEntity("Dispute", 1, 1, <<1>>)
    /\ Len(rows) = 2
    /\ ledger = <<>>
    /\ output = <<>>

(* ------------------------------- C21 ---------------------------------- *)
\* The number of entries of list that carry the activity.
ActivityCount(list, activity) ==
    Cardinality({i \in 1..Len(list) : list[i].activity = activity})

\* Two lists of rejected entries carry the same activities, each the same
\* number of times.
SameActivities(list1, list2) ==
    \A activity \in {list1[i].activity : i \in 1..Len(list1)}
                     \cup {list2[i].activity : i \in 1..Len(list2)} :
        ActivityCount(list1, activity) = ActivityCount(list2, activity)

BackfilledPositions ==
    LET rej == Before.history.rejected_txs
    IN  claimed_fold(last'.tx, rej, Len(rej),
                     [available |-> Before.available
                          + Before.history.account_activity[last'.tx].amount,
                      total |-> Before.total,
                      removed |-> {}]).removed

\* The backfill pass leaves held, is_locked, account_activity and
\* disputed_txs as the Resolve left them.
C22_Frame ==
    (last'.kind = "Resolve" /\ ResolveTakesEffect(Before, last'.tx)) =>
        /\ After.held = Before.held
               - Before.history.account_activity[last'.tx].amount
        /\ After.is_locked = Before.is_locked
        /\ After.history.account_activity = Before.history.account_activity
        /\ After.history.disputed_txs
               = Before.history.disputed_txs \ {last'.tx}

\* rejected_txs only grows by appending at the end (a Withdrawal) and only
\* shrinks by removals during an effective Resolve, which keep the order of
\* the entries that remain.
C22_Order ==
    LET old == Before.history.rejected_txs
        new == After.history.rejected_txs
    IN  IF last'.kind = "Resolve" /\ ResolveTakesEffect(Before, last'.tx)
        THEN \E removed \in SUBSET (1..Len(old)) :
                 /\ new = without_positions(old, removed, Len(old))
                 /\ Cardinality(removed) = Cardinality(BackfilledPositions)
        ELSE IF last'.kind = "Withdrawal"
        THEN \/ new = old
             \/ /\ Len(new) = Len(old) + 1
                /\ SubSeq(new, 1, Len(old)) = old
                /\ new[Len(new)].activity
                       = Withdrawal(last'.client, last'.tx, last'.amount)
        ELSE new = old

\* An entry that is not both eligible and affordable when the pass examines
\* it stays in rejected_txs, with its snapshot: the entries left are those
\* at the positions not backfilled.
C22_Stays ==
    (last'.kind = "Resolve" /\ ResolveTakesEffect(Before, last'.tx)) =>
        After.history.rejected_txs
            = without_positions(Before.history.rejected_txs,
                                BackfilledPositions,
                                Len(Before.history.rejected_txs))

\* C22: the backfill pass changes only available, total and rejected_txs
\* (held, is_locked, account_activity and disputed_txs are as the Resolve
\* left them); an entry that is not both eligible and affordable stays in
\* rejected_txs with its snapshot intact; and the entries that remain keep
\* their relative insertion order (rejected_txs only grows by appending at
\* the end and only shrinks by removal on a successful backfill).
C22_BackfillChangesOnlyFundsAndRejected ==
    [][C22_Frame /\ C22_Order /\ C22_Stays]_vars

(* ------------------------------- C23 ---------------------------------- *)
\* C23: with non-negative amounts the single left-to-right backfill pass
\* already reaches a fixed point: immediately after any Resolve(c, tx) that
\* took effect no entry remains in rejected_txs whose snapshot contains tx
\* and whose amount is <= available, so running the pass a second time for
\* the same tx would change nothing.
C23_BackfillPassIsFixedPoint ==
    (last.kind = "Resolve" /\ changed) =>
        /\ \A i \in 1..Len(Rejected) :
               ~(/\ last.tx \in Rejected[i].disputed_transaction_snapshot
                 /\ Rejected[i].activity.amount <= Current.available)
        /\ resolve_prev_rejected(last.tx, Current).state = Current

(* ------------------------------- C24 ---------------------------------- *)
\* The backfill pass of an engine that removes a backfilled entry by the
\* TransactionId of its withdrawal: the accumulator is the client state.
RECURSIVE fold_by_id(_, _, _, _)
fold_by_id(resolved_tx, rejected, n, init) ==
    IF n = 0 THEN init
    ELSE LET acc == fold_by_id(resolved_tx, rejected, n - 1, init)
             r == rejected[n]
             list == acc.history.rejected_txs
             hits == {i \in 1..Len(list) : list[i].activity.tx = r.activity.tx}
         IN  IF /\ resolved_tx \in r.disputed_transaction_snapshot
                /\ r.activity.amount <= acc.available
                /\ hits # {}
             THEN [acc EXCEPT
                      !.available = @ - r.activity.amount,
                      !.total = @ - r.activity.amount,
                      !.history.rejected_txs =
                          remove_idx(@, CHOOSE i \in hits : \A j \in hits : i <= j)]
             ELSE acc

\* No two Withdrawals folded so far carried the same id, and the ids of the
\* rejected withdrawals are among theirs.
WithdrawalIdsDistinct ==
    /\ \A i, j \in 1..Len(Rejected) :
           i # j => Rejected[i].activity.tx # Rejected[j].activity.tx
    /\ \A i \in 1..Len(Rejected) :
           Rejected[i].activity.tx \in activity_ids.withdrawals

\* C24: when every withdrawal in the stream has a distinct transaction id,
\* removing a backfilled entry from rejected_txs by finding the first entry
\* with a structurally equal activity removes exactly the entry being
\* processed: an effective Resolve yields the state of an engine that
\* removes the entry by the withdrawal's TransactionId.
C24_RemovalByEqualityIsRemovalById ==
    /\ [][(last'.kind = "Resolve" /\ ResolveTakesEffect(Before, last'.tx)) =>
             /\ After = claimed_resolve(Before, last'.tx)
             /\ After = fold_by_id(last'.tx, Before.history.rejected_txs,
                                   Len(Before.history.rejected_txs),
                                   Released)]_vars
    /\ []WithdrawalIdsDistinct

\* A Resolve has just backfilled a rejected withdrawal and left an earlier
\* ineligible one of the same amount, with another id, in rejected_txs.
C24_Witness ==
    /\ last.kind = "Resolve"
    /\ changed
    /\ Len(applied) = 1
    /\ Len(Rejected) = 1
    /\ last.tx \notin Rejected[1].disputed_transaction_snapshot
    /\ Rejected[1].disputed_transaction_snapshot
           \subseteq applied[1].rejected.disputed_transaction_snapshot
    /\ Rejected[1].activity.amount = applied[1].rejected.activity.amount
    /\ Rejected[1].activity.tx # applied[1].rejected.activity.tx

(* ------------------------------- C25 ---------------------------------- *)
\* C25: the backfill pass never panics, for any finite stream, streams that
\* reuse transaction ids included: every entry of rejected_txs is a
\* Withdrawal (the "Only withdrawals can be backfilled" panic is
\* unreachable), and whenever an entry is to be removed the accumulator's
\* rejected_txs still contains an entry with an equal activity (the unwrap
\* of the search always succeeds), even when several entries of the list
\* have equal activities.  No step has panicked, and no Resolve folded next
\* would.
C25_BackfillNeverPanics ==
    /\ ~panicked
    /\ \A c \in DOMAIN ledger :
           \A i \in 1..Len(ledger[c].history.rejected_txs) :
               ledger[c].history.rejected_txs[i].activity.kind = "Withdrawal"
    /\ \A c \in ClientIds, tx \in TransactionIds :
           ~resolve_transaction(Transaction("Resolve", c, tx, 0), ledger).panic

\* A Resolve has just backfilled two rejected withdrawals with equal
\* activities, one after the other, without a panic.
C25_Witness ==
    /\ last.kind = "Resolve"
    /\ changed
    /\ ~panicked
    /\ Len(applied) = 2
    /\ applied[1].rejected.activity = applied[2].rejected.activity

(* ------------------------------- C26 ---------------------------------- *)
\* The number of backfill deductions of the latest step made for the
\* activity.
Deductions(done, activity) ==
    Cardinality({k \in 1..Len(done) : done[k].rejected.activity = activity})

\* C26: a rejected withdrawal is never processed twice: over the whole run
\* the number of backfill deductions made for a given withdrawal activity
\* never exceeds the number of times that activity was stored in
\* rejected_txs, and each successful backfill shortens rejected_txs by
\* exactly one entry.  Step by step: the entries of rejected_txs with a
\* given activity are those before the step, plus the one stored by the
\* step, minus one for each deduction the step made for that activity.
C26_RejectedWithdrawalNeverProcessedTwice ==
    [][LET old == Before.history.rejected_txs
           new == After.history.rejected_txs
           done == applied'
           this == Withdrawal(last'.client, last'.tx, last'.amount)
           stored(activity) ==
               IF /\ last'.kind = "Withdrawal"
                  /\ activity = this
                  /\ new # old
               THEN 1 ELSE 0
       IN  /\ \A activity \in {old[i].activity : i \in 1..Len(old)}
                                \cup {new[i].activity : i \in 1..Len(new)}
                                \cup {done[k].rejected.activity : k \in 1..Len(done)} :
                  ActivityCount(new, activity)
                      = ActivityCount(old, activity) + stored(activity)
                            - Deductions(done, activity)
           /\ Len(new) = Len(old) + stored(this) - Len(done)
           /\ done # <<>> => last'.kind = "Resolve"
           /\ (last'.kind = "Resolve" /\ ResolveTakesEffect(Before, last'.tx))
                  => /\ After.total = Before.total
                            - BackfilledAmount(done, Len(done))
                     /\ After.available = Before.available
                            + Before.history.account_activity[last'.tx].amount
                            - BackfilledAmount(done, Len(done))]_vars

\* A Resolve has just backfilled one of two rejected withdrawals with
\* equal activities; the other one is still in rejected_txs.
C26_Witness ==
    /\ last.kind = "Resolve"
    /\ changed
    /\ Len(applied) = 1
    /\ \E i \in 1..Len(Rejected) :
           Rejected[i].activity = applied[1].rejected.activity

(* ------------------------------- C27 ---------------------------------- *)
\* C27: the snapshot stored with a rejected withdrawal is fixed at rejection
\* time: it is the set of ids disputed when the withdrawal was rejected, and
\* no later Dispute, Resolve, Deposit, Withdrawal or backfill of another
\* entry adds an id to it or removes an id from it, for as long as the
\* entry stays in rejected_txs.  In every step the entries of rejected_txs
\* are entries it held before the step, as they were and in their order,
\* or the entry the step stored.
C27_SnapshotFixedAtRejection ==
    [][LET old == Before.history.rejected_txs
           new == After.history.rejected_txs
       IN  \/ \E removed \in SUBSET (1..Len(old)) :
                  new = without_positions(old, removed, Len(old))
           \/ /\ last'.kind = "Withdrawal"
              /\ new = Append(old,
                     [activity |-> Withdrawal(last'.client, last'.tx, last'.amount),
                      disputed_transaction_snapshot |->
                          Before.history.disputed_txs])]_vars

\* A Dispute has just taken effect on an account that holds a rejected
\* withdrawal: the id is disputed and is not in the entry's snapshot.
C27_Witness ==
    /\ last.kind = "Dispute"
    /\ changed
    /\ last.tx \in Current.history.disputed_txs
    /\ Rejected # <<>>
    /\ \A i \in 1..Len(Rejected) :
           /\ last.tx \notin Rejected[i].disputed_transaction_snapshot
           /\ Rejected[i].disputed_transaction_snapshot
                  \subseteq Current.history.disputed_txs

(* ------------------------------- C28 ---------------------------------- *)
\* The sum of the amounts recorded in account_activity under the ids of txs.
RECURSIVE RecordedAmount(_, _)
RecordedAmount(account_activity, txs) ==
    IF txs = {} THEN 0
    ELSE LET tx == CHOOSE t \in txs : TRUE
         IN  account_activity[tx].amount
                 + RecordedAmount(account_activity, txs \ {tx})

\* C28: when all Deposit and Withdrawal transaction ids in the stream are
\* distinct, then starting from an empty ledger, for every unlocked client
\* after every transaction, held equals the sum of the amounts of the
\* deposits whose ids are in disputed_txs (so held is 0 when nothing is
\* disputed and is never negative).
C28_HeldIsSumOfDisputedDeposits ==
    \A c \in DOMAIN ledger :
        ~ledger[c].is_locked =>
            /\ \A tx \in ledger[c].history.disputed_txs :
                   /\ tx \in DOMAIN ledger[c].history.account_activity
                   /\ ledger[c].history.account_activity[tx].kind = "Deposit"
            /\ ledger[c].held
                   = RecordedAmount(ledger[c].history.account_activity,
                                    ledger[c].history.disputed_txs)
            /\ ledger[c].held >= 0
            /\ ledger[c].history.disputed_txs = {} => ledger[c].held = 0

\* A Resolve has just released one of two disputed deposits of an unlocked
\* account: the amount of the other one is still held.
C28_Witness ==
    /\ last.kind = "Resolve"
    /\ changed
    /\ ~Current.is_locked
    /\ Cardinality(Current.history.disputed_txs) = 1
    /\ Current.held = 2
    /\ Current.history.account_activity[last.tx].amount = 1
    /\ Cardinality(activity_ids.deposits) >= 2

(* ------------------------------- C29 ---------------------------------- *)
\* C29: after any sequence of transactions from an empty ledger (transaction
\* ids may repeat), every id in a client's disputed_txs has a Deposit
\* recorded in that client's account_activity, so a Resolve or Chargeback of
\* a currently disputed id on an unlocked account takes effect.
C29_DisputedIdsStayDeposits ==
    \A c \in DOMAIN ledger :
        \A tx \in ledger[c].history.disputed_txs :
            /\ IsRecordedDeposit(ledger[c], tx)
            /\ ~ledger[c].is_locked =>
                   /\ update_resolve(ledger[c], tx).result # None
                   /\ update_chargeback(ledger[c], tx) # None

(* ------------------------------- C30 ---------------------------------- *)
\* C30: accounting conservation. Starting from an empty ledger, after every
\* transaction each client's total equals the sum of the amounts of its
\* applied deposits, minus the amounts of its withdrawals applied directly,
\* minus the amounts of its withdrawals applied by backfill, minus the
\* amounts of its charged-back deposits; dropped, rejected-and-still-pending
\* and no-op transactions contribute nothing.
C30_TotalIsConserved ==
    \A c \in ClientIds : get_or_default(ledger, c).total = accounted[c]

\* A Chargeback has just taken effect on an account that a Deposit of 2 and
\* a direct Withdrawal of 1 have contributed to: the Deposit is charged back
\* and the total is -1.
C30_Witness ==
    /\ last.kind = "Chargeback"
    /\ changed
    /\ Current.is_locked
    /\ Current.total = 0 - 1
    /\ accounted[last.client] = 0 - 1
    /\ \E tx \in DOMAIN Current.history.account_activity :
           Current.history.account_activity[tx].kind = "Withdrawal"

(* ------------------------------- C31 ---------------------------------- *)
\* C31: with non-negative amounts, only a Dispute can make available
\* negative: if available >= 0 before a Deposit, Withdrawal, Resolve
\* (its backfill pass included) or Chargeback, then available >= 0 after
\* it, because a withdrawal, direct or backfilled, is applied only when its
\* amount is <= available at the moment of application: a direct one within
\* the available of the state before, the k-th backfilled one within what
\* the release and the k-1 entries backfilled before it have left.
C31_OnlyDisputeMakesAvailableNegative ==
    [][LET done == applied'
           direct == /\ last'.kind = "Withdrawal"
                     /\ After # Before
                     /\ After.history.rejected_txs = Before.history.rejected_txs
       IN  /\ (last'.kind \in {"Deposit", "Withdrawal", "Resolve", "Chargeback"}
                  /\ Before.available >= 0)
                 => After.available >= 0
           /\ After.available < Before.available
                 => \/ last'.kind = "Dispute"
                    \/ direct
                    \/ last'.kind = "Resolve" /\ done # <<>>
           /\ direct => last'.amount <= Before.available
           /\ \A k \in 1..Len(done) :
                  /\ done[k].rejected.activity.amount >= 0
                  /\ BackfilledAmount(done, k)
                         <= Before.available
                                + Before.history.account_activity[last'.tx].amount]_vars

\* A Resolve has just released a deposit of 2 and backfilled a withdrawal of
\* 2: available is 0 and a rejected withdrawal that no longer fits is still
\* pending.
C31_Witness ==
    /\ last.kind = "Resolve"
    /\ changed
    /\ Len(applied) = 1
    /\ applied[1].rejected.activity.amount = 2
    /\ Current.available = 0
    /\ Rejected # <<>>

(* ------------------------------- C32 ---------------------------------- *)
\* C32: starting from an empty ledger, a client is locked if and only if a
\* Chargeback has taken effect for it: no Deposit, Withdrawal, Dispute,
\* Resolve or backfill sets is_locked, and at most one Chargeback ever
\* takes effect per client.
C32_LockedIffChargedBack ==
    \A c \in ClientIds :
        /\ get_or_default(ledger, c).is_locked <=> chargebacks[c] >= 1
        /\ chargebacks[c] <= 1

\* Two deposits are disputed and one has been charged back: the Chargeback
\* of the other has just been ignored, the account stays locked with the
\* other amount held.
C32_Witness ==
    /\ last.kind = "Chargeback"
    /\ ~changed
    /\ Current.is_locked
    /\ chargebacks[last.client] = 1
    /\ Cardinality(Current.history.disputed_txs) = 2
    /\ last.tx \in Current.history.disputed_txs
    /\ IsRecordedDeposit(Current, last.tx)
    /\ Current.held = Current.history.account_activity[last.tx].amount

(* ------------------------------- C33 ---------------------------------- *)
\* C33: bounded response for a pending withdrawal. With distinct Deposit and
\* Withdrawal ids, if a withdrawal is stored as rejected with snapshot S
\* while rejected_txs is otherwise empty, and the client's following
\* transactions are exactly one Resolve for each id in S (in any order),
\* then by the time the last of them has been processed the withdrawal has
\* been applied (its amount deducted from available and total, which have
\* not changed otherwise apart from the release of what was held) and
\* rejected_txs is empty.
C33_PendingWithdrawalAppliedByLastResolve ==
    (pending # None /\ pending[1].left = {}) =>
        LET stored == pending[1].state
            amount == pending[1].activity.amount
            now == get_or_default(ledger, pending[1].activity.client)
        IN  /\ ~panicked
            /\ now.history.rejected_txs = <<>>
            /\ now.total = stored.total - amount
            /\ now.available = stored.available + stored.held - amount
            /\ now.held = 0
            /\ now.history.disputed_txs = {}

\* A withdrawal of 2 was stored while two deposits were disputed and
\* available was below 1; the Resolve of the second of them has just been
\* folded, and the withdrawal was not backfilled by the first.
C33_Witness ==
    /\ pending # None
    /\ pending[1].left = {}
    /\ last.kind = "Resolve"
    /\ changed
    /\ Cardinality(pending[1].state.history.disputed_txs) = 2
    /\ pending[1].activity.amount = 2
    /\ pending[1].state.available < 1
    /\ Len(applied) = 1
    /\ Rejected = <<>>

====
